---- MODULE Spec2Model ----
(***************************************************************************)
(* Model of tfdeepsurv/datasets.py: survival_stats (the statistics report) *)
(* and survival_df (the signed-label transform) acting on one caller-owned *)
(* pandas DataFrame.                                                       *)
(*                                                                         *)
(* A DataFrame is a record                                                 *)
(*    [columns : sequence of names, n : row count,                         *)
(*     cells   : name -> sequence of n integers].                          *)
(* Python's KeyError (a column lookup that fails) and ZeroDivisionError    *)
(* keep their Python names.                                                *)
(***************************************************************************)
EXTENDS Integers, Sequences, FiniteSets

MaxRows == 2

VARIABLES
    data,      \* the caller's DataFrame object, passed by reference to every call
    emitted,   \* lines the most recent call wrote to stdout, in order
    plots,     \* invocations of plot_km_survf made by the most recent call
    last,      \* record of the most recent call: arguments, pre-call snapshot, outcome
    prev       \* record of the call before it, kept when it was a survival_df call

vars == <<data, emitted, plots, last, prev>>

Range(s) == {s[i] : i \in 1..Len(s)}

----------------------------------------------------------------------------
(* Input tables *)

\* columns as load_simulated_data builds them (num_features = 3): x_0, x_1, x_2, e, t
SimulatedColumns == <<"x_0", "x_1", "x_2", "e", "t">>

\* a caller-built frame with its own column names, one covariate being named "Y"
CallerColumns == <<"x_0", "Y", "time", "status">>

Layouts ==
    { [columns |-> SimulatedColumns, t |-> "t", e |-> "e"],
      [columns |-> CallerColumns, t |-> "time", e |-> "status"] }

Pos(seq, c) == CHOOSE i \in 1..Len(seq) : seq[i] = c

\* covariate cells never steer the code; each is a fixed value that tells its
\* column and row and that no time or event takes
CovCell(p, i) == 10 * p + i

MkTable(L, n, tv, ev) ==
    [columns |-> L.columns,
     n       |-> n,
     cells   |-> [c \in Range(L.columns) |->
                    IF c = L.t THEN tv
                    ELSE IF c = L.e THEN ev
                    ELSE [i \in 1..n |-> CovCell(Pos(L.columns, c), i)]]]

\* observed or censoring times: the t = 0 boundary and a positive time
TimeVals == {0, 5}

\* valid SurvivalTables: time >= 0, event in {0,1}; zero rows allowed
Tables ==
    UNION { { MkTable(L, n, tv, ev) :
                tv \in [1..n -> TimeVals], ev \in [1..n -> {0, 1}] } :
            L \in Layouts, n \in 0..MaxRows }

\* (t_col, e_col) as callers pass them: the defaults, the caller's own names,
\* and a call that names the time column but leaves e_col at its default
ColArgs == {<<"t", "e">>, <<"time", "status">>, <<"time", "e">>}
LabelArgs == {"Y", "e"}
ExcludeArgs == {<<>>, <<"x_1">>}

----------------------------------------------------------------------------
(* DataFrame primitives *)

EmptyTable == [columns |-> <<>>, n |-> 0, cells |-> [c \in {} |-> <<>>]]

HasCol(d, c) == c \in Range(d.columns)

\* data.loc[:, c] = vals : overwrite in place, or append a new last column
SetCol(d, c, vals) ==
    [columns |-> IF HasCol(d, c) THEN d.columns ELSE Append(d.columns, c),
     n       |-> d.n,
     cells   |-> [k \in (DOMAIN d.cells) \cup {c} |->
                    IF k = c THEN vals ELSE d.cells[k]]]

\* data[cols] : a new frame holding the listed columns, in the listed order
Project(d, cols) ==
    [columns |-> cols,
     n       |-> d.n,
     cells   |-> [k \in Range(cols) |-> d.cells[k]]]

RECURSIVE SumSeq(_)
SumSeq(s) == IF s = <<>> THEN 0 ELSE s[1] + SumSeq(Tail(s))

MinSeq(s) == CHOOSE m \in Range(s) : \A v \in Range(s) : m <= v
MaxSeq(s) == CHOOSE m \in Range(s) : \A v \in Range(s) : m >= v

----------------------------------------------------------------------------
(* survival_stats *)

Line(kind, names, num, nan) ==
    [kind |-> kind, names |-> names, num |-> num, nan |-> nan]

HeaderLine == Line("Header", <<>>, 0, FALSE)

RowsLine(d) == Line("Rows", <<>>, d.n, FALSE)

\* "# Columns: %d + %s + %s" % (len(data.columns) - 2, e_col, t_col)
ColumnsLine(d, t_col, e_col) ==
    Line("Columns", <<e_col, t_col>>, Len(d.columns) - 2, FALSE)

\* "%.2f" % (num / den) for den > 0, in hundredths: the nearest hundredth, an
\* exact tie going to the even one (ties need den divisible by 8)
Fmt2f(num, den) ==
    LET q == (100 * num) \div den
        r == (100 * num) % den
    IN  IF 2 * r > den THEN q + 1
        ELSE IF 2 * r < den THEN q
        ELSE IF q % 2 = 0 THEN q ELSE q + 1

\* a plausible slip: the percentage scaling the "%%" suggests
EventsRatioTimes100(d, e_col) == Fmt2f(100 * SumSeq(d.cells[e_col]), d.n)

\* 1.0 * data[e_col].sum() / N, as "%.2f" prints it (hundredths)
EventsRatio(d, e_col) == Fmt2f(SumSeq(d.cells[e_col]), d.n)

\* N = 0 with a numpy sum: 0.0 / 0 is nan (a warning, no exception)
RatioLine(d, e_col) ==
    IF d.n = 0
    THEN Line("EventsRatio", <<>>, 0, TRUE)
    ELSE Line("EventsRatio", <<>>, EventsRatio(d, e_col), FALSE)

\* min() and max() of an empty column are nan
MinLine(d, t_col) ==
    IF d.n = 0
    THEN Line("MinTime", <<>>, 0, TRUE)
    ELSE Line("MinTime", <<>>, MinSeq(d.cells[t_col]), FALSE)

MaxLine(d, t_col) ==
    IF d.n = 0
    THEN Line("MaxTime", <<>>, 0, TRUE)
    ELSE Line("MaxTime", <<>>, MaxSeq(d.cells[t_col]), FALSE)

BlankLine == Line("Blank", <<>>, 0, FALSE)

\* plot_km_survf(data, t_col="t", e_col="e"): the names are literals; `after` is
\* the number of lines already written when the collaborator is invoked
PlotCall(d, after) == [data |-> d, t_col |-> "t", e_col |-> "e", after |-> after]

\* The whole of survival_stats on frame d.  pysum tells whether the sum of an
\* empty event column is a Python int (object dtype: 0 / 0 raises
\* ZeroDivisionError) or a numpy scalar (numeric dtype: nan).
StatsOutcome(d, t_col, e_col, plot, pysum) ==
    LET head == <<HeaderLine, RowsLine(d), ColumnsLine(d, t_col, e_col)>>
        upToRatio == Append(head, RatioLine(d, e_col))
        full == upToRatio \o <<MinLine(d, t_col), MaxLine(d, t_col), BlankLine>>
    IN  IF ~HasCol(d, e_col)
        THEN [emitted |-> head, plots |-> <<>>, error |-> "KeyError"]
        ELSE IF d.n = 0 /\ pysum
        THEN [emitted |-> head, plots |-> <<>>, error |-> "ZeroDivisionError"]
        ELSE IF ~HasCol(d, t_col)
        THEN [emitted |-> upToRatio, plots |-> <<>>, error |-> "KeyError"]
        ELSE [emitted |-> full,
              plots   |-> IF plot THEN <<PlotCall(d, Len(full))>> ELSE <<>>,
              error   |-> "none"]

----------------------------------------------------------------------------
(* survival_df *)

\* a plausible slip: exclude_col forgotten in the filter
XColsNoExclude(d, t_col, e_col, exclude_col) ==
    SelectSeq(d.columns, LAMBDA c : c \notin {t_col, e_col})

\* x_cols = [c for c in data.columns if c not in [t_col, e_col] + exclude_col]
XCols(d, t_col, e_col, exclude_col) ==
    SelectSeq(d.columns, LAMBDA c : c \notin ({t_col, e_col} \cup Range(exclude_col)))

\* data.loc[:, label_col] = data.loc[:, t_col]
CopyTime(d, t_col, label_col) == SetCol(d, label_col, d.cells[t_col])

\* data.loc[data[e_col] == 0, label_col] = - data.loc[data[e_col] == 0, label_col]
NegateCensored(d, e_col, label_col) ==
    SetCol(d, label_col,
           [i \in 1..d.n |-> IF d.cells[e_col][i] = 0
                             THEN 0 - d.cells[label_col][i]
                             ELSE d.cells[label_col][i]])

\* The whole of survival_df on frame d: the frame it leaves behind, and what
\* the caller gets
DfOutcome(d, t_col, e_col, label_col, exclude_col) ==
    LET x_cols == XCols(d, t_col, e_col, exclude_col)
    IN  IF ~HasCol(d, t_col)
        THEN [data |-> d, error |-> "KeyError", returned |-> FALSE,
              result |-> EmptyTable]
        ELSE LET d1 == CopyTime(d, t_col, label_col)
             IN  IF ~HasCol(d1, e_col)
                 THEN [data |-> d1, error |-> "KeyError", returned |-> FALSE,
                       result |-> EmptyTable]
                 ELSE LET d2 == NegateCensored(d1, e_col, label_col)
                      IN  [data |-> d2, error |-> "none", returned |-> TRUE,
                           result |-> Project(d2, Append(x_cols, label_col))]

----------------------------------------------------------------------------
(* The caller *)

NoCall ==
    [op |-> "none", t_col |-> "", e_col |-> "", label_col |-> "",
     exclude_col |-> <<>>, plot |-> FALSE, snapshot |-> EmptyTable,
     error |-> "none", returned |-> FALSE, result |-> EmptyTable]

\* history kept for comparing two survival_df calls in a row
Remember(call) == IF call.op = "survival_df" THEN call ELSE NoCall

\* whether the event column of an empty frame sums to a Python int or to a
\* numpy scalar depends on the column's dtype; it matters only when N = 0
SumKinds(d) == IF d.n = 0 THEN BOOLEAN ELSE {FALSE}

Init ==
    /\ data \in Tables
    /\ emitted = <<>>
    /\ plots = <<>>
    /\ last = NoCall
    /\ prev = NoCall

survival_stats(t_col, e_col, plot, pysum) ==
    LET out == StatsOutcome(data, t_col, e_col, plot, pysum)
    IN  /\ emitted' = out.emitted
        /\ plots' = out.plots
        /\ last' = [op |-> "survival_stats", t_col |-> t_col, e_col |-> e_col,
                    label_col |-> "", exclude_col |-> <<>>, plot |-> plot,
                    snapshot |-> data, error |-> out.error,
                    returned |-> (out.error = "none"), result |-> EmptyTable]
        /\ prev' = Remember(last)
        /\ UNCHANGED data

survival_df(t_col, e_col, label_col, exclude_col) ==
    LET out == DfOutcome(data, t_col, e_col, label_col, exclude_col)
    IN  /\ data' = out.data
        /\ emitted' = <<>>
        /\ plots' = <<>>
        /\ last' = [op |-> "survival_df", t_col |-> t_col, e_col |-> e_col,
                    label_col |-> label_col, exclude_col |-> exclude_col,
                    plot |-> FALSE, snapshot |-> data, error |-> out.error,
                    returned |-> out.returned, result |-> out.result]
        /\ prev' = Remember(last)

Next ==
    \/ \E cols \in ColArgs, plot \in BOOLEAN, pysum \in SumKinds(data) :
          survival_stats(cols[1], cols[2], plot, pysum)
    \/ \E cols \in ColArgs, label_col \in LabelArgs, exclude_col \in ExcludeArgs :
          survival_df(cols[1], cols[2], label_col, exclude_col)

Spec == Init /\ [][Next]_vars

----------------------------------------------------------------------------
(* Properties *)

\* d is a valid SurvivalTable for the named columns: time >= 0, event in {0,1}
ValidFor(d, t_col, e_col) ==
    /\ HasCol(d, t_col)
    /\ HasCol(d, e_col)
    /\ \A i \in 1..d.n : d.cells[t_col][i] >= 0 /\ d.cells[e_col][i] \in {0, 1}

Encoded == last.op = "survival_df"
Reported == last.op = "survival_stats"

\* the covariates survival_df is to keep, as a set of names
Retained(call) ==
    {c \in Range(call.snapshot.columns) :
        c \notin {call.t_col, call.e_col} /\ c \notin Range(call.exclude_col)}

\* C1: for a valid table, every row of the table survival_df returns has
\* label = time when event = 1 and label = -time when event = 0.
C1_LabelIsSignedTime ==
    (Encoded /\ last.returned /\ ValidFor(last.snapshot, last.t_col, last.e_col)) =>
        \A i \in 1..last.snapshot.n :
            last.result.cells[last.label_col][i] =
                IF last.snapshot.cells[last.e_col][i] = 1
                THEN last.snapshot.cells[last.t_col][i]
                ELSE 0 - last.snapshot.cells[last.t_col][i]

\* C2: after any survival_df call, returned or failed, the caller's table
\* equals its snapshot taken just before the call.
C2_InputUnchanged == Encoded => data = last.snapshot

\* C3: the returned table's columns are exactly the input columns that are not
\* t_col, e_col or excluded, in their original relative order, followed by the
\* label column as the last column; the kept covariates other than one that
\* bears the label's name carry the input's values, and the row count is kept.
C3_OutputColumns ==
    (Encoded /\ last.returned) =>
        LET out == last.result.columns
            k == Len(out) - 1
            s == last.snapshot
        IN  /\ k >= 0
            /\ out[k + 1] = last.label_col
            /\ {out[i] : i \in 1..k} = Retained(last)
            /\ \A i, j \in 1..k : i < j => Pos(s.columns, out[i]) < Pos(s.columns, out[j])
            /\ \A i \in 1..k :
                  out[i] # last.label_col => last.result.cells[out[i]] = s.cells[out[i]]
            /\ last.result.n = s.n

\* C3 witness: a first call on the simulated layout that excludes the middle
\* covariate and keeps the two around it
C3_Witness ==
    /\ Encoded
    /\ last.returned
    /\ last.snapshot.columns = SimulatedColumns
    /\ last.snapshot.n > 0
    /\ last.exclude_col = <<"x_1">>
    /\ last.result.columns = <<"x_0", "x_2", "Y">>

\* C4: a call that ends in an error has written nothing to stdout and has
\* returned no table.
C4_NoPartialOnError ==
    last.error # "none" => (emitted = <<>> /\ ~last.returned)

\* C5: survival_stats on a zero-row table (its columns present) fails with the
\* division error and emits no event ratio.
C5_EmptyReportFails ==
    (Reported /\ last.snapshot.n = 0
        /\ HasCol(last.snapshot, last.t_col) /\ HasCol(last.snapshot, last.e_col)) =>
        /\ last.error = "ZeroDivisionError"
        /\ \A i \in 1..Len(emitted) : emitted[i].kind # "EventsRatio"

\* C6: survival_df called with a t_col or an e_col that is no column of the
\* table fails with the column-lookup error and returns no table.
C6_MissingColumnFails ==
    (Encoded /\ (~HasCol(last.snapshot, last.t_col) \/ ~HasCol(last.snapshot, last.e_col))) =>
        (last.error = "KeyError" /\ ~last.returned)

\* C7: survival_df called with label_col naming a retained covariate fails
\* instead of returning a table.
C7_LabelCollisionFails ==
    (Encoded /\ HasCol(last.snapshot, last.t_col) /\ HasCol(last.snapshot, last.e_col)
        /\ last.label_col \in Retained(last)) =>
        (last.error # "none" /\ ~last.returned)

\* C8: for a valid table with N > 0 rows survival_stats completes and writes, in
\* this order, the header, the row count, the covariate count, the event ratio,
\* the minimum time, the maximum time and a blank line; the ratio is the
\* hundredth nearest to (number of events) / N, unscaled, so it lies in [0, 1].
C8_EventRatioLiteral ==
    (Reported /\ last.snapshot.n > 0
        /\ ValidFor(last.snapshot, last.t_col, last.e_col)) =>
        LET s == last.snapshot
            events == Cardinality({i \in 1..s.n : s.cells[last.e_col][i] = 1})
        IN  /\ last.returned
            /\ [i \in 1..Len(emitted) |-> emitted[i].kind] =
                  <<"Header", "Rows", "Columns", "EventsRatio", "MinTime", "MaxTime", "Blank">>
            /\ emitted[2].num = s.n
            /\ emitted[3].num = Len(s.columns) - 2
            /\ emitted[3].names = <<last.e_col, last.t_col>>
            /\ ~emitted[4].nan
            /\ emitted[4].num \in 0..100
            /\ 200 * events - 2 * s.n * emitted[4].num \in (0 - s.n)..s.n
            /\ \A i \in 1..s.n : emitted[5].num <= s.cells[last.t_col][i]
            /\ \A i \in 1..s.n : emitted[6].num >= s.cells[last.t_col][i]

\* C8 witness: a report on a table where half the rows are events (ratio 0.50)
C8_Witness ==
    /\ Reported
    /\ last.returned
    /\ ValidFor(last.snapshot, last.t_col, last.e_col)
    /\ last.snapshot.n > 1
    /\ Len(emitted) = 7
    /\ emitted[4].num = 50

\* C9: two survival_df calls in a row on the same table with the same
\* arguments return equal tables.
C9_RepeatedEncodeEqual ==
    (Encoded /\ prev.op = "survival_df" /\ prev.returned
        /\ prev.t_col = last.t_col /\ prev.e_col = last.e_col
        /\ prev.label_col = last.label_col /\ prev.exclude_col = last.exclude_col) =>
        (last.returned /\ last.result = prev.result)

\* C10: survival_stats with plot = true invokes the plotting collaborator once,
\* after the statistics, with the caller's table and the caller's t_col and
\* e_col; with plot = false it does not invoke it.
C10_PlotGetsCallerColumns ==
    (Reported /\ last.returned) =>
        plots = IF last.plot
                THEN <<[data |-> last.snapshot, t_col |-> last.t_col,
                        e_col |-> last.e_col, after |-> Len(emitted)]>>
                ELSE <<>>

====
